---- MODULE Spec2Model ----
(***************************************************************************)
(* Model of the decode-and-publish pipeline of                             *)
(* cantools/subparsers/decode.py: the ingestion coroutine _do_decode, the  *)
(* asyncio queue it shares with the coroutine _influx_worker, and the      *)
(* InfluxDB sink the worker writes to.                                     *)
(*                                                                         *)
(* Scheduling.  Both coroutines run on one asyncio event loop.  The        *)
(* ingestion loop (lines 94-163) contains no await: sys.stdin.readline()   *)
(* is a blocking call.  The worker task created at line 89 therefore runs  *)
(* only while _do_decode is suspended in `await queue.join()` (line 103 or *)
(* line 169).                                                              *)
(*                                                                         *)
(* Aliasing.  influx_json is ONE Python list, created once at line 90.     *)
(* queue.put_nowait(influx_json) stores a reference to it, and             *)
(* influx_json.clear() / .append() mutate that same object.  The queue is  *)
(* modelled as a sequence of references; a reference is dereferenced when  *)
(* the worker hands it to client.write_points.                             *)
(***************************************************************************)
EXTENDS Integers, Sequences, FiniteSets, TLC

\* ------------------------------------------------------------------------
\* Bounds of the model (not program constants).
MaxPoints == 201
MaxSkips == 2

\* Program constants.
BatchSize == 100
maxsize == 0

\* ------------------------------------------------------------------------
VARIABLES
    influxdb,     \* args.influxdb is set (sink enabled)
    filetype,     \* args.filetype: "dump" (live mode) or "log"
    pc,           \* position of _do_decode: "read", "join_eof", "join_int", "done"
    shutdown,     \* what ended the ingestion loop: "none", "eof", "interrupt", "break"
    line,         \* kind of the line returned by the last readline()
    nread,        \* number of lines read so far
    npoints,      \* number of points (json dicts) constructed so far
    influx_json,  \* contents of the list object created at line 90
    queue,        \* asyncio.Queue._queue: sequence of references
    unfinished,   \* asyncio.Queue._unfinished_tasks
    wpc,          \* position of _influx_worker: "none", "get", "write", "dead", "cancelled"
    wjson,        \* the worker's local `json`: a reference or NoRef
    calls,        \* the calls client.write_points received: [json, result]
    frame_ids,    \* the frame-id allow-list of the configuration (never read)
    frame_id,     \* frame id of the last record parsed
    enqueued,     \* history: what the list held at each put_nowait
    origin        \* history: the kind of line each point was built from

pipeVars == <<influxdb, filetype, pc, shutdown, line, nread, npoints,
              influx_json, queue, unfinished, wpc, wjson, calls,
              frame_ids, frame_id, enqueued, origin>>

\* State of the record parser (lines 23-60, 111-118), studied on its own.
VARIABLES
    rawline,      \* the input line, after strip, as its fields
    mo,           \* the match object of RE_CANDUMP / RE_CANDUMP_LOG, or None
    rec           \* what _mo_unpack / _log_mo_unpack returned, or the raise

parseVars == <<rawline, mo, rec>>

vars == <<pipeVars, parseVars>>

\* The single list object of line 90 and the absence of a reference.
ListRef == "influx_json"
NoRef == "null"

\* Kinds of input line.  "frame": matches the grammar, the database knows
\* the id and decodes a non-empty signal mapping.  "nosignals": the database
\* knows the id and decodes an empty mapping.  "unknown": the id is not in
\* the database.  "nonframe": the line does not match the grammar.
RecordKinds == {"frame", "nosignals", "unknown"}

\* Frame ids of the records of the model, and the allow-lists a run may be
\* configured with: none, or the single id 0x1F0.
FrameIds == {"1F0", "201"}
AllowLists == {{}, {"1F0"}}

\* Outcomes of client.write_points: it returns True, returns a false value
\* (the failure _write_to_db tests for at line 68), or raises.
WriteOutcomes == {"ok", "false", "raise"}

\* ------------------------------------------------------------------------
\* The external database, at its interface.
\* dbase.get_message_by_frame_id(frame_id): a message, or nothing for an id
\* the database does not know.
get_message_by_frame_id(kind) == kind \in {"frame", "nosignals"}

\* dbase.decode_message(frame_id, data): TRUE iff the result is a non-empty
\* signal mapping.
decode_message(kind) == kind = "frame"

\* Line 138: `if message and signals`.
PointConstructed_NoGuard(kind) == TRUE
PointConstructed_MessageOnly(kind) == get_message_by_frame_id(kind)
PointConstructed(kind) == get_message_by_frame_id(kind) /\ decode_message(kind)

\* asyncio.Queue.full(): a queue with maxsize <= 0 is never full.  put_nowait
\* succeeds only on a queue that is not full (it raises QueueFull otherwise,
\* it never waits).
full(q) == IF maxsize <= 0 THEN FALSE ELSE Len(q) >= maxsize

\* The list a reference denotes, read at the time of the call.
Deref(ref) == IF ref = ListRef THEN influx_json ELSE << >>

\* influx_task.done(): the task finished, by exception or by cancellation.
TaskDone == wpc \in {"dead", "cancelled"}

\* ------------------------------------------------------------------------
\* Lines 79-91: state on entry to the try block.
Init ==
    /\ influxdb \in BOOLEAN
    /\ filetype \in {"dump", "log"}
    /\ pc = "read"
    /\ shutdown = "none"
    /\ line = "none"
    /\ nread = 0
    /\ npoints = 0
    /\ influx_json = << >>
    /\ queue = << >>
    /\ unfinished = 0
    /\ wpc = IF influxdb THEN "get" ELSE "none"
    /\ wjson = NoRef
    /\ calls = << >>
    /\ frame_ids \in AllowLists
    /\ frame_id = "none"
    /\ enqueued = << >>
    /\ origin = << >>
    /\ rawline = [shape |-> "none"]
    /\ mo = [state |-> "none"]
    /\ rec = [status |-> "none"]

\* Line 94: the ingestion loop is running; every exit is a `break` or an
\* exception that leaves it for good.
Reading_NoBreak == pc \in {"read", "join_eof"}
Reading == pc = "read"

\* Lines 95, 108-163: a line that matches the grammar of the file type.
\* Between the parse (lines 111-118) and the decode (lines 126-136) nothing
\* consults an allow-list.
ReadRecord ==
    /\ Reading
    /\ \E kind \in RecordKinds, fid \in FrameIds :
         LET publish == influxdb /\ PointConstructed(kind)
             appended == Append(influx_json, npoints + 1)
         IN
         /\ IF publish THEN npoints < MaxPoints
                       ELSE nread - npoints < MaxSkips
         /\ line' = kind
         /\ frame_id' = fid
         /\ nread' = nread + 1
         /\ IF publish
            THEN /\ npoints' = npoints + 1
                 /\ origin' = Append(origin, kind)
                 /\ IF Len(appended) >= BatchSize
                    THEN \* lines 155-157: put_nowait(influx_json); clear()
                         /\ ~full(queue)
                         /\ queue' = Append(queue, ListRef)
                         /\ unfinished' = unfinished + 1
                         /\ enqueued' = Append(enqueued, appended)
                         /\ influx_json' = << >>
                    ELSE /\ influx_json' = appended
                         /\ UNCHANGED <<queue, unfinished, enqueued>>
            ELSE UNCHANGED <<npoints, influx_json, queue, unfinished,
                             enqueued, origin>>
    /\ UNCHANGED <<influxdb, filetype, pc, shutdown, wpc, wjson, calls,
                   frame_ids>>
    /\ UNCHANGED parseVars

\* Lines 111-118 and 174-175: a line that matches neither grammar breaks out
\* of the loop in both modes; _do_decode returns and asyncio.run cancels the
\* worker task that is still pending.
ReadNonFrame ==
    /\ pc = "read"
    /\ nread - npoints < MaxSkips
    /\ line' = "nonframe"
    /\ nread' = nread + 1
    /\ shutdown' = "break"
    /\ pc' = "done"
    /\ wpc' = IF influxdb /\ ~TaskDone THEN "cancelled" ELSE wpc
    /\ UNCHANGED <<influxdb, filetype, npoints, influx_json, queue,
                   unfinished, wjson, calls>>
    /\ UNCHANGED <<frame_ids, frame_id, enqueued, origin>>
    /\ UNCHANGED parseVars

\* Lines 98-103: readline() returns '' at end of input.
ReadEOF ==
    /\ pc = "read"
    /\ line' = "eof"
    /\ shutdown' = "eof"
    /\ IF influxdb
       THEN /\ IF Len(influx_json) > 0
               THEN /\ ~full(queue)
                    /\ queue' = Append(queue, ListRef)
                    /\ unfinished' = unfinished + 1
                    /\ enqueued' = Append(enqueued, influx_json)
               ELSE UNCHANGED <<queue, unfinished, enqueued>>
            /\ pc' = "join_eof"
       ELSE /\ pc' = "done"
            /\ UNCHANGED <<queue, unfinished, enqueued>>
    /\ UNCHANGED <<influxdb, filetype, nread, npoints, influx_json,
                   wpc, wjson, calls>>
    /\ UNCHANGED <<frame_ids, frame_id, origin>>
    /\ UNCHANGED parseVars

\* Lines 166-169: KeyboardInterrupt raised inside the ingestion loop.
Interrupt ==
    /\ pc = "read"
    /\ shutdown' = "interrupt"
    /\ pc' = IF influxdb /\ ~TaskDone THEN "join_int" ELSE "done"
    /\ UNCHANGED <<influxdb, filetype, line, nread, npoints, influx_json,
                   queue, unfinished, wpc, wjson, calls>>
    /\ UNCHANGED <<frame_ids, frame_id, enqueued, origin>>
    /\ UNCHANGED parseVars

\* Lines 103-106: queue.join() returns once no task is unfinished.
JoinEOF ==
    /\ pc = "join_eof"
    /\ unfinished = 0
    /\ wpc' = IF TaskDone THEN wpc ELSE "cancelled"
    /\ pc' = "done"
    /\ UNCHANGED <<influxdb, filetype, shutdown, line, nread, npoints,
                   influx_json, queue, unfinished, wjson, calls>>
    /\ UNCHANGED <<frame_ids, frame_id, enqueued, origin>>
    /\ UNCHANGED parseVars

\* Lines 169-171: the same wait on the interrupt path.
JoinInterrupt ==
    /\ pc = "join_int"
    /\ unfinished = 0
    /\ wpc' = "cancelled"
    /\ pc' = "done"
    /\ UNCHANGED <<influxdb, filetype, shutdown, line, nread, npoints,
                   influx_json, queue, unfinished, wjson, calls>>
    /\ UNCHANGED <<frame_ids, frame_id, enqueued, origin>>
    /\ UNCHANGED parseVars

\* Line 73: json = await queue.get().  The worker runs only while
\* _do_decode is suspended in queue.join().
WorkerGet ==
    /\ pc \in {"join_eof", "join_int"}
    /\ wpc = "get"
    /\ Len(queue) > 0
    /\ wjson' = Head(queue)
    /\ queue' = Tail(queue)
    /\ wpc' = "write"
    /\ UNCHANGED <<influxdb, filetype, pc, shutdown, line, nread, npoints,
                   influx_json, unfinished, calls>>
    /\ UNCHANGED <<frame_ids, frame_id, enqueued, origin>>
    /\ UNCHANGED parseVars

\* Lines 75-76: client.write_points(json); queue.task_done().  An exception
\* from write_points is not caught: the task ends and task_done() is not
\* reached.
WorkerWrite ==
    /\ wpc = "write"
    /\ \E outcome \in WriteOutcomes :
         /\ calls' = Append(calls, [json |-> Deref(wjson), result |-> outcome])
         /\ IF outcome = "raise"
            THEN /\ wpc' = "dead"
                 /\ UNCHANGED unfinished
            ELSE /\ wpc' = "get"
                 /\ unfinished' = unfinished - 1
    /\ wjson' = NoRef
    /\ UNCHANGED <<influxdb, filetype, pc, shutdown, line, nread, npoints,
                   influx_json, queue>>
    /\ UNCHANGED <<frame_ids, frame_id, enqueued, origin>>
    /\ UNCHANGED parseVars

Next ==
    \/ ReadRecord
    \/ ReadNonFrame
    \/ ReadEOF
    \/ Interrupt
    \/ JoinEOF
    \/ JoinInterrupt
    \/ WorkerGet
    \/ WorkerWrite

Spec == Init /\ [][Next]_vars

\* The event loop runs a task whenever one can run, and the input is finite.
FairSpec == Spec /\ WF_vars(Next)

\* The event loop runs the worker whenever the worker can run; the input
\* source may stay silent for ever (readline() blocks on a live capture).
WorkerFairSpec == Spec /\ WF_vars(WorkerGet) /\ WF_vars(WorkerWrite)

\* ------------------------------------------------------------------------
TypeOK ==
    /\ influxdb \in BOOLEAN
    /\ filetype \in {"dump", "log"}
    /\ pc \in {"read", "join_eof", "join_int", "done"}
    /\ shutdown \in {"none", "eof", "interrupt", "break"}
    /\ line \in RecordKinds \cup {"none", "nonframe", "eof"}
    /\ nread \in 0..(MaxPoints + MaxSkips)
    /\ npoints \in 0..MaxPoints
    /\ Len(influx_json) < BatchSize
    /\ unfinished \in Nat
    /\ wpc \in {"none", "get", "write", "dead", "cancelled"}
    /\ wjson \in {ListRef, NoRef}
    /\ frame_ids \in AllowLists
    /\ frame_id \in FrameIds \cup {"none"}
    /\ Len(enqueued) = Len(queue) + Len(calls) + (IF wpc = "write" THEN 1 ELSE 0)
    /\ Len(origin) = npoints

\* ------------------------------------------------------------------------
\* Derived views of the state.

RECURSIVE Flatten(_)
Flatten(batches) ==
    IF batches = << >> THEN << >>
    ELSE Head(batches) \o Flatten(Tail(batches))

\* The batches the worker handed to client.write_points, in call order.
Received == [i \in 1..Len(calls) |-> calls[i].json]

\* The batches the sink stored: the calls that returned True.
IsOk(c) == c.result = "ok"
Written == [i \in 1..Len(SelectSeq(calls, IsOk)) |-> SelectSeq(calls, IsOk)[i].json]

AllOk == \A i \in 1..Len(calls) : calls[i].result = "ok"

\* The points constructed by the ingestion loop, in input order.
Decoded == [i \in 1..npoints |-> i]

Ceil(m, n) == (m + n - 1) \div n

Count(p, s) == Cardinality({i \in 1..Len(s) : s[i] = p})

\* _do_decode has returned.
Stopped == pc = "done"

\* ------------------------------------------------------------------------
\* C1: when a run with the sink enabled ends by EOF and every sink write
\* succeeded, the points written to the sink are exactly the decoded points,
\* each once and in order.
C1_WrittenEqualsDecoded ==
    (Stopped /\ influxdb /\ shutdown = "eof" /\ AllOk)
        => Flatten(Written) = Decoded

\* C2: batch invariant: after a run of M points that ends by EOF the worker
\* has received ceil(M/N) batches, all but possibly the last of exactly N
\* points, and their concatenation is the M points in order.
C2_BatchInvariant ==
    (Stopped /\ influxdb /\ shutdown = "eof")
        => /\ Len(Received) = Ceil(npoints, BatchSize)
           /\ \A i \in 1..(Len(Received) - 1) : Len(Received[i]) = BatchSize
           /\ Flatten(Received) = Decoded

\* C3: interrupt safety: after an interrupt that found P >= 1 points in the
\* open partial batch (influx_json is not touched after the interrupt), each
\* of those points has been written to the sink exactly once when the
\* pipeline has stopped.
C3_InterruptFlushesPartial ==
    (Stopped /\ influxdb /\ shutdown = "interrupt" /\ AllOk
        /\ Len(influx_json) >= 1)
        => \A i \in 1..Len(influx_json) :
              Count(influx_json[i], Flatten(Written)) = 1

\* C4: a failed sink write does not stop the worker: after a failed call the
\* worker is still serving the queue, or has been cancelled by the
\* coordinator after the drain, and then no batch is left in the queue.
C4_WorkerSurvivesFailure ==
    (\E i \in 1..Len(calls) : calls[i].result # "ok")
        => /\ wpc \in {"get", "write", "cancelled"}
           /\ (wpc = "cancelled" => queue = << >>)

\* C5: every run eventually reaches Stopped, also when a sink write fails.
C5_EventuallyStopped == <>Stopped

\* C6: the queue has a fixed finite capacity and never holds more batches
\* than that capacity.
C6_BoundedQueue == maxsize >= 1 /\ Len(queue) <= maxsize

\* C7: in log mode a line that does not match the grammar is skipped: the
\* ingestion loop goes on to the next readline().
C7_LogSkipsNonFrame ==
    [][(filetype = "log" /\ nread' = nread + 1 /\ line' = "nonframe")
          => (pc' = "read" /\ shutdown' = "none")]_vars

\* C8: in live mode, with the sink enabled, a non-frame line starts the
\* drain: the open partial batch is enqueued and the coordinator waits for
\* the queue before the worker is stopped.
C8_LiveNonFrameDrains ==
    [][(filetype = "dump" /\ influxdb /\ nread' = nread + 1
            /\ line' = "nonframe")
          => /\ pc' \in {"join_eof", "join_int"}
             /\ wpc' = wpc
             /\ (Len(influx_json) > 0 => queue' = Append(queue, ListRef))]_vars

\* C9: ordering: the points reach the sink in input order; no point is
\* written after a point that follows it in the input.
C9_SinkOrder ==
    LET f == Flatten(Written)
    IN \A i \in 1..(Len(f) - 1) : f[i] <= f[i + 1]

Range(f) == {f[i] : i \in 1..Len(f)}

\* Draining: _do_decode waits in queue.join().
Draining == pc \in {"join_eof", "join_int"}

\* Every point that sits in the open batch, in a queued batch, in the batch
\* the worker holds, or in a batch handed to the sink.
PointsHeld ==
    Range(influx_json)
        \cup UNION {Range(enqueued[i]) : i \in 1..Len(enqueued)}
        \cup UNION {Range(Deref(queue[i])) : i \in 1..Len(queue)}
        \cup Range(Deref(wjson))
        \cup UNION {Range(calls[i].json) : i \in 1..Len(calls)}

\* The largest number of batches a run of the model can enqueue.
MaxBatches == Ceil(MaxPoints, BatchSize)

\* C11: a batch is fixed once formed and held by one queue slot: no two
\* queue slots refer to the same batch, and the points the worker dequeues
\* and hands to the sink for the i-th batch are the points that batch held
\* when it was enqueued.
C11_BatchFixedOnceEnqueued ==
    /\ \A i, j \in 1..Len(queue) : i # j => queue[i] # queue[j]
    /\ \A i \in 1..Len(calls) : calls[i].json = enqueued[i]

\* C12: no empty batch is emitted: every queued batch is non-empty and the
\* worker never calls the sink write with an empty sequence of points.
C12_NoEmptyBatch ==
    /\ \A i \in 1..Len(queue) : Deref(queue[i]) # << >>
    /\ \A i \in 1..Len(calls) : calls[i].json # << >>

\* C13: on every exit path the worker is stopped only after the queue has
\* been consumed: in the step that cancels the worker the queue is empty, no
\* task is unfinished and the worker holds no dequeued batch.
C13_CancelOnlyAfterDrain ==
    [][(wpc' = "cancelled" /\ wpc # "cancelled")
          => (queue = << >> /\ unfinished = 0 /\ wjson = NoRef)]_vars

\* C14: the worker makes progress independently of ingestion: the k-th batch
\* enqueued while the ingestion loop is running is eventually handed to the
\* sink, unless the loop is left (EOF, interrupt or break) first.
C14_WorkerProgressWhileRunning ==
    \A k \in 1..MaxBatches :
        (pc = "read" /\ Len(enqueued) >= k)
            ~> (Len(calls) >= k \/ pc # "read")

\* C15: frame filter: with a non-empty allow-list a record whose frame id is
\* not in the list is dropped before decode and yields no point; with an
\* empty allow-list every record passes on to decode and publish.
C15_FrameFilter ==
    [][(nread' = nread + 1 /\ line' \in RecordKinds)
          => /\ (frame_ids # {} /\ frame_id' \notin frame_ids)
                   => (npoints' = npoints /\ influx_json' = influx_json
                          /\ queue' = queue)
             /\ (frame_ids = {} /\ influxdb /\ line' = "frame")
                   => npoints' = npoints + 1]_vars

\* C18: every point in a batch, in the queue or handed to the sink comes
\* from a record for which the database gave a message and a non-empty
\* signal mapping; a record without a message or with an empty mapping
\* produces no point.
C18_PointsHaveMessageAndSignals ==
    /\ [](\A p \in PointsHeld :
             get_message_by_frame_id(origin[p]) /\ decode_message(origin[p]))
    /\ [][(nread' = nread + 1 /\ line' \in RecordKinds
              /\ ~(get_message_by_frame_id(line') /\ decode_message(line')))
            => (npoints' = npoints /\ influx_json' = influx_json
                   /\ queue' = queue /\ enqueued' = enqueued)]_vars

\* C18 witness: with the sink enabled a record with an empty signal mapping
\* has just been read while points sit in the open batch and a batch is
\* queued.
C18_Witness ==
    /\ influxdb
    /\ line = "nosignals"
    /\ pc = "read"
    /\ Len(influx_json) >= 1
    /\ Len(queue) >= 1

\* C19: once draining has started the ingestion task reads and decodes no
\* further line and enqueues nothing; the step that starts the drain
\* enqueues at most the open partial batch, once.
C19_NoIngestionAfterDrainStart ==
    /\ [][(Draining \/ Stopped)
            => (nread' = nread /\ npoints' = npoints /\ line' = line
                   /\ influx_json' = influx_json /\ enqueued' = enqueued
                   /\ Len(queue') <= Len(queue))]_vars
    /\ [][(pc = "read" /\ pc' \in {"join_eof", "join_int"})
            => (nread' = nread /\ npoints' = npoints
                   /\ (enqueued' = enqueued
                          \/ (influx_json # << >>
                                 /\ enqueued' = Append(enqueued, influx_json))))]_vars

\* C19 witness: the drain after EOF is under way: the worker has written one
\* batch and another is still queued.
C19_Witness ==
    /\ pc = "join_eof"
    /\ Len(calls) >= 1
    /\ Len(queue) >= 1
    /\ npoints > BatchSize

\* ------------------------------------------------------------------------
\* The record parser.  A text is a sequence of one-character strings.  A
\* line is given by its fields, in the layout of the format it is written in:
\*   live ("dump"):  <link>  <id>   [<count>]<sep><data>
\*   log:            (<ts>) <link> <id>#<data>
\* The timestamp conversions (lines 32-35 and 48-50) are floating-point
\* arithmetic on a value no property below reads; they are left out.

Digits == {"0", "1", "2", "3", "4", "5", "6", "7", "8", "9"}
UpperHexChars == Digits \cup {"A", "B", "C", "D", "E", "F"}
UpperLetters == {"A", "B", "C", "D", "E", "F", "G", "H", "I", "J", "K", "L",
                 "M", "N", "O", "P", "Q", "R", "S", "T", "U", "V", "W", "X",
                 "Y", "Z"}
LowerLetters == {"a", "b", "c", "d", "e", "f", "g", "h", "i", "j", "k", "l",
                 "m", "n", "o", "p", "q", "r", "s", "t", "u", "v", "w", "x",
                 "y", "z"}
Letters == UpperLetters \cup LowerLetters
Alnum == Digits \cup Letters

HexUpper == <<"0", "1", "2", "3", "4", "5", "6", "7", "8", "9",
              "A", "B", "C", "D", "E", "F">>
HexLower == <<"0", "1", "2", "3", "4", "5", "6", "7", "8", "9",
              "a", "b", "c", "d", "e", "f">>

\* binascii accepts hexadecimal digits of either case.
IsHexChar(c) == \E i \in 1..16 : HexUpper[i] = c \/ HexLower[i] = c
HexVal(c) == CHOOSE v \in 0..15 : HexUpper[v + 1] = c \/ HexLower[v + 1] = c

AllIn(t, chars) == \A i \in 1..Len(t) : t[i] \in chars

\* str * n: n copies of a character; none when n <= 0.
Repeat(c, n) == [i \in 1..(IF n > 0 THEN n ELSE 0) |-> c]

\* Lines 38 and 53: '0' * (8 - len(frame_id)) + frame_id.
PadFrameId(t) == Repeat("0", 8 - Len(t)) \o t

\* Line 42: str.ljust(width, fill) pads on the right; a text that is already
\* as long is returned as it is.
rjust(t, width, fill) == Repeat(fill, width - Len(t)) \o t
ljust(t, width, fill) == t \o Repeat(fill, width - Len(t))

\* Line 57: data.replace(' ', '').
RemoveSpaces(t) == SelectSeq(t, LAMBDA c : c # " ")

\* binascii.unhexlify (lines 39, 43, 54, 58): raises on an odd number of
\* digits and on a character that is not a hexadecimal digit; otherwise one
\* byte per pair of digits.
unhexlify(t) ==
    IF Len(t) % 2 # 0 \/ (\E i \in 1..Len(t) : ~IsHexChar(t[i]))
    THEN [ok |-> FALSE, bytes |-> << >>]
    ELSE [ok |-> TRUE,
          bytes |-> [i \in 1..(Len(t) \div 2) |->
                        16 * HexVal(t[2 * i - 1]) + HexVal(t[2 * i])]]

\* struct.unpack('>I', b)[0] (lines 40, 55): raises unless b has 4 bytes.
unpack_I(b) ==
    IF Len(b) # 4
    THEN [ok |-> FALSE, value |-> 0]
    ELSE [ok |-> TRUE,
          value |-> ((b[1] * 256 + b[2]) * 256 + b[3]) * 256 + b[4]]

\* The frame id of lines 37-40 and 52-55.
FrameIdOf(t) ==
    LET h == unhexlify(PadFrameId(t))
    IN IF h.ok THEN unpack_I(h.bytes) ELSE [ok |-> FALSE, value |-> 0]

\* The text of a line, as readline() and strip deliver it.
TextOf(l) ==
    IF l.shape = "dump"
    THEN l.link \o <<" ", " ">> \o l.id \o <<" ", " ", " ", "[">> \o l.count
            \o <<"]">> \o l.sep \o l.data
    ELSE <<"(">> \o l.ts \o <<")", " ">> \o l.link \o <<" ">> \o l.id
            \o <<"#">> \o l.data

NoMatch == [state |-> "nomatch", g0 |-> << >>, g1 |-> << >>, g2 |-> << >>,
            g3 |-> << >>, g4 |-> << >>]

\* Line 23: RE_CANDUMP = ^.*  ([0-9A-F]+)   \[\d+\]\s*([0-9A-F ]*)$ on a
\* line in the live layout.  The count is not captured and the link is not a
\* group; group 0 is the whole line.
RE_CANDUMP_match(l) ==
    IF /\ l.shape = "dump"
       /\ Len(l.id) >= 1 /\ AllIn(l.id, UpperHexChars)
       /\ Len(l.count) >= 1 /\ AllIn(l.count, Digits)
       /\ AllIn(l.sep, {" "})
       /\ AllIn(l.data, UpperHexChars \cup {" "})
    THEN [state |-> "match", g0 |-> TextOf(l), g1 |-> l.id, g2 |-> l.data,
          g3 |-> << >>, g4 |-> << >>]
    ELSE NoMatch

\* Line 25: RE_CANDUMP_LOG =
\* ^\(([0-9]{10}.[0-9]{6})\) ([A-Za-z]{3,4}[0-9]{1,2}) ([0-9A-Za-z]{3,8})#([0-9A-Za-z]{2,16})$
LinkMatches(t) ==
    \E n \in 3..4 :
        /\ Len(t) \in (n + 1)..(n + 2)
        /\ AllIn(SubSeq(t, 1, n), Letters)
        /\ AllIn(SubSeq(t, n + 1, Len(t)), Digits)

TimestampMatches(t) ==
    /\ Len(t) = 17
    /\ AllIn(SubSeq(t, 1, 10), Digits)
    /\ AllIn(SubSeq(t, 12, 17), Digits)

RE_CANDUMP_LOG_match(l) ==
    IF /\ l.shape = "log"
       /\ TimestampMatches(l.ts)
       /\ LinkMatches(l.link)
       /\ Len(l.id) \in 3..8 /\ AllIn(l.id, Alnum)
       /\ Len(l.data) \in 2..16 /\ AllIn(l.data, Alnum)
    THEN [state |-> "match", g0 |-> TextOf(l), g1 |-> l.ts, g2 |-> l.link,
          g3 |-> l.id, g4 |-> l.data]
    ELSE NoMatch

Raised == [status |-> "raise", link |-> << >>, frame_id |-> 0, data |-> << >>]

\* Lines 31-45: _log_mo_unpack.
log_mo_unpack(m) ==
    LET fid == FrameIdOf(m.g3)
        d == unhexlify(ljust(m.g4, 16, "0"))
    IN IF fid.ok /\ d.ok
       THEN [status |-> "ok", link |-> m.g2, frame_id |-> fid.value,
             data |-> d.bytes]
       ELSE Raised

\* Lines 47-60: _mo_unpack.  link is mo.group(0).
mo_unpack(m) ==
    LET fid == FrameIdOf(m.g1)
        d == unhexlify(RemoveSpaces(m.g2))
    IN IF fid.ok /\ d.ok
       THEN [status |-> "ok", link |-> m.g0, frame_id |-> fid.value,
             data |-> d.bytes]
       ELSE Raised

\* Lines 139-147: the tags of the point built from a record.  IMPORT_TIME,
\* HOSTNAME and UUID are module constants (lines 18-20).
TagsOf(r) == [link |-> r.link, import_time |-> "IMPORT_TIME",
              host |-> "HOSTNAME", uuid |-> "UUID", dbc |-> "args.database"]

\* ------------------------------------------------------------------------
\* The lines the parser is run on.

Vcan0 == <<"v", "c", "a", "n", "0">>
Can0 == <<"c", "a", "n", "0">>

RECURSIVE JoinPairs(_)
JoinPairs(ps) ==
    IF ps = << >> THEN << >>
    ELSE IF Len(ps) = 1 THEN ps[1]
    ELSE ps[1] \o <<" ">> \o JoinPairs(Tail(ps))

BytePatterns ==
    {<<<<"0", "0">>, <<"0", "0">>, <<"0", "0">>, <<"0", "0">>, <<"0", "0">>, <<"0", "0">>, <<"1", "B">>, <<"C", "1">>>>,
     <<<<"F", "F">>, <<"0", "1">>, <<"2", "3">>, <<"4", "5">>, <<"6", "7">>, <<"8", "9">>, <<"A", "B">>, <<"C", "D">>>>}

DumpLinks == {Vcan0, Can0}
DumpIds == {<<"1", "F", "0">>, <<"2", "0", "1">>, <<"0">>, <<"7", "F", "F">>,
            <<"1", "F", "F", "F", "F", "F", "F", "F">>,
            <<"1", "2", "3", "4", "5", "6", "7", "8", "9">>}
DumpCounts == {<<d>> : d \in Digits \ {"9"}}
DumpData ==
    {JoinPairs(SubSeq(p, 1, n)) : p \in BytePatterns, n \in 0..8}
        \cup {<<"0">>, <<"0", "0", " ", "0">>}

DumpLines ==
    [shape : {"dump"}, ts : {<< >>}, link : DumpLinks, id : DumpIds,
     count : DumpCounts, sep : {<<" ", " ">>}, data : DumpData]

ScenarioTs == <<"1", "5", "7", "5", "3", "0", "5", "1", "6", "1", ".", "7", "5", "8", "3", "5", "7">>
LogTimestamps == {ScenarioTs, <<"1", "5", "7", ".", "7", "5">>}
LogLinks == {Can0, Vcan0, <<"c", "0">>}
LogIds == {<<"2", "0", "1">>, <<"1", "F", "0">>, <<"7", "F", "F">>,
           <<"1", "F", "F", "F", "F", "F", "F", "F">>,
           <<"0", "0", "0", "0", "0", "2", "0", "1">>,
           <<"1", "f", "0">>, <<"2", "0">>, <<"G", "0", "1">>}
LogData ==
    {Repeat("0", n - 2) \o <<"6", "2">> : n \in 2..16}
        \cup {<<"0", "0", "0", "0", "0", "0", "0", "0", "0", "0", "0", "0", "1", "B", "C", "1">>,
              <<"1", "2", "3">>, <<"1">>, <<"Z", "Z">>, <<"a", "b">>}

LogLines ==
    [shape : {"log"}, ts : LogTimestamps, link : LogLinks, id : LogIds,
     count : {<< >>}, sep : {<< >>}, data : LogData]

\* "(1575305161.758357) can0 201#0000000062"
ScenarioLog ==
    [shape |-> "log", ts |-> ScenarioTs, link |-> Can0, id |-> <<"2", "0", "1">>,
     count |-> << >>, sep |-> << >>, data |-> <<"0", "0", "0", "0", "0", "0", "0", "0", "6", "2">>]

\* The parser on its own: args.filetype and one line.
ParseInit ==
    /\ filetype \in {"dump", "log"}
    /\ rawline \in DumpLines \cup LogLines
    /\ mo = [state |-> "pending"]
    /\ rec = [status |-> "none"]
    /\ influxdb = FALSE
    /\ pc = "read"
    /\ shutdown = "none"
    /\ line = "none"
    /\ nread = 0
    /\ npoints = 0
    /\ influx_json = << >>
    /\ queue = << >>
    /\ unfinished = 0
    /\ wpc = "none"
    /\ wjson = NoRef
    /\ calls = << >>
    /\ frame_ids = {}
    /\ frame_id = "none"
    /\ enqueued = << >>
    /\ origin = << >>

\* Line 112: mo = RE_CANDUMP.match(line).
DumpMatch ==
    /\ filetype = "dump"
    /\ mo.state = "pending"
    /\ mo' = RE_CANDUMP_match(rawline)
    /\ UNCHANGED <<pipeVars, rawline, rec>>

\* Line 113: if mo: ... = _mo_unpack(mo).
DumpUnpack ==
    /\ filetype = "dump"
    /\ mo.state = "match"
    /\ rec.status = "none"
    /\ rec' = mo_unpack(mo)
    /\ UNCHANGED <<pipeVars, rawline, mo>>

\* Line 116: mo = RE_CANDUMP_LOG.match(line).
LogMatch ==
    /\ filetype = "log"
    /\ mo.state = "pending"
    /\ mo' = RE_CANDUMP_LOG_match(rawline)
    /\ UNCHANGED <<pipeVars, rawline, rec>>

\* Line 117: if mo: ... = _log_mo_unpack(mo).
LogUnpack ==
    /\ filetype = "log"
    /\ mo.state = "match"
    /\ rec.status = "none"
    /\ rec' = log_mo_unpack(mo)
    /\ UNCHANGED <<pipeVars, rawline, mo>>

ParseNext ==
    \/ DumpMatch
    \/ DumpUnpack
    \/ LogMatch
    \/ LogUnpack

ParseSpec == ParseInit /\ [][ParseNext]_vars

\* The number a text of digits denotes, in base 16 and in base 10.
RECURSIVE HexNumber(_)
HexNumber(t) ==
    IF t = << >> THEN 0
    ELSE 16 * HexNumber(SubSeq(t, 1, Len(t) - 1)) + HexVal(t[Len(t)])

RECURSIVE DecNumber(_)
DecNumber(t) ==
    IF t = << >> THEN 0
    ELSE 10 * DecNumber(SubSeq(t, 1, Len(t) - 1)) + HexVal(t[Len(t)])

IsHexText(t) == \A i \in 1..Len(t) : IsHexChar(t[i])

\* The j-th hexadecimal digit of a payload text padded with zeros on the
\* right.
Nibble(t, j) == IF j <= Len(t) THEN HexVal(t[j]) ELSE 0

\* ------------------------------------------------------------------------
\* C16 as stated: the log line (1575305161.758357) can0 201#0000000062
\* yields link can0, frame id 0x201 and payload 00 00 00 00 00 00 00 62;
\* a frame id of 3 to 8 hex digits is the number it denotes and the payload
\* has 8 bytes.
C16_LogScenarioPayload ==
    (filetype = "log" /\ rec.status # "none")
        => /\ (rawline = ScenarioLog
                 => /\ rec.status = "ok"
                    /\ rec.link = Can0
                    /\ rec.frame_id = 513
                    /\ rec.data = <<0, 0, 0, 0, 0, 0, 0, 98>>)
           /\ (IsHexText(rawline.id) /\ IsHexText(rawline.data)
                 => /\ rec.status = "ok"
                    /\ rec.frame_id = HexNumber(rawline.id)
                    /\ Len(rec.data) = 8)

\* C16 amended: the same line yields link can0, frame id 0x201 and payload
\* 00 00 00 00 62 00 00 00: the payload digits are padded with zeros on the
\* right to 16 digits, so the bytes of the line come first.
C16_LogPayloadRightPadded ==
    (filetype = "log" /\ rec.status # "none")
        => /\ (rawline = ScenarioLog
                 => /\ rec.status = "ok"
                    /\ rec.link = Can0
                    /\ rec.frame_id = 513
                    /\ rec.data = <<0, 0, 0, 0, 98, 0, 0, 0>>)
           /\ (IsHexText(rawline.id) /\ IsHexText(rawline.data)
                 => /\ rec.status = "ok"
                    /\ rec.link = rawline.link
                    /\ rec.frame_id = HexNumber(rawline.id)
                    /\ Len(rec.data) = 8
                    /\ \A i \in 1..8 :
                          rec.data[i] = 16 * Nibble(rawline.data, 2 * i - 1)
                                           + Nibble(rawline.data, 2 * i))

\* C16 witness: the scenario line has been matched and unpacked.
C16_Witness ==
    /\ filetype = "log"
    /\ rawline = ScenarioLog
    /\ rec.status = "ok"

\* C17: every live line the parser accepts, with bracketed count k in 0..8,
\* is unpacked without an error into a record with exactly k payload bytes
\* and the frame id its hex digits denote.
C17_LiveParseCountBytes ==
    (filetype = "dump" /\ mo.state = "match" /\ rec.status # "none"
        /\ DecNumber(rawline.count) \in 0..8)
        => /\ rec.status = "ok"
           /\ Len(rec.data) = DecNumber(rawline.count)
           /\ rec.frame_id = HexNumber(rawline.id)

\* C20: in live mode the link of the record, and the link tag of the point
\* built from it, is the channel name at the start of the line; the other
\* tags are the constants of the run.
C20_LiveLinkIsChannel ==
    (filetype = "dump" /\ rec.status = "ok")
        => /\ rec.link = rawline.link
           /\ TagsOf(rec).link = rawline.link
           /\ TagsOf(rec).import_time = "IMPORT_TIME"
           /\ TagsOf(rec).host = "HOSTNAME"
           /\ TagsOf(rec).uuid = "UUID"
           /\ TagsOf(rec).dbc = "args.database"
====
